---------------------------- MODULE Spec2Model ----------------------------
(***************************************************************************)
(* Escape-time kernel of src/mandelbrot.py: get_escape_time,               *)
(* get_complex_grid, get_escape_time_color_arr and get_julia_color_arr.    *)
(*                                                                         *)
(* Number domain.  Python floats and complex numbers are modelled on the   *)
(* values whose real and imaginary parts are integers.  binary64 holds     *)
(* every integer of the magnitudes reached here exactly, so +, -, * and    *)
(* the comparison abs(z) > 2 are computed without rounding and the model   *)
(* arithmetic is the program's arithmetic on these inputs.  NaN is kept as *)
(* a value of its own (field nan), because get_julia_color_arr writes it.  *)
(*                                                                         *)
(* A run of the program is one pipeline: either one call of                *)
(* get_escape_time, or one call of get_complex_grid whose array is then    *)
(* handed to get_escape_time_color_arr or to get_julia_color_arr.  The     *)
(* three loop-free or per-sample functions are operators applied by one    *)
(* action each; the lockstep sweep of get_julia_color_arr is modelled one  *)
(* loop iteration per step.                                                *)
(***************************************************************************)
EXTENDS Integers, Sequences, FiniteSets

\* ------------------------------------------------------------- bounds
\* Real and imaginary parts of the inputs range over -CoordMax..CoordMax.
CoordMax == 2
\* max_iterations / max_iter range over 0..MaxIter.
MaxIter == 3
\* step ranges over -1..MaxStep (negative, zero and positive steps).
MaxStep == 2
\* Real and imaginary part of the Julia constant range over -JuliaCMax..JuliaCMax.
JuliaCMax == 1

Coord == (-CoordMax)..CoordMax
Steps == (-1)..MaxStep
Iterations == 0..MaxIter

\* ------------------------------------------------- complex arithmetic
\* A Python complex (or a numpy complex128 entry).
Cx(a, b) == [nan |-> FALSE, re |-> a, im |-> b]
\* np.nan stored into a complex array.
NaN == [nan |-> TRUE, re |-> 0, im |-> 0]

\* z ** 2 : (a + bi)^2 = (a^2 - b^2) + 2ab i ; NaN stays NaN.
CSq(z) ==
    IF z.nan THEN NaN
    ELSE Cx(z.re * z.re - z.im * z.im, 2 * z.re * z.im)

\* z + c
CAdd(z, c) ==
    IF z.nan \/ c.nan THEN NaN
    ELSE Cx(z.re + c.re, z.im + c.im)

\* Plausible slip: >= in place of >.
AbsGt2_GE(z) ==
    IF z.nan THEN FALSE
    ELSE z.re * z.re + z.im * z.im >= 4

\* abs(z) > 2 ; every comparison with NaN is False.
AbsGt2(z) ==
    IF z.nan THEN FALSE
    ELSE z.re * z.re + z.im * z.im > 4

\* ----------------------------------------------------- get_escape_time
\* Python's int | None.
None == [isNone |-> TRUE, val |-> 0]
Some(n) == [isNone |-> FALSE, val |-> n]

RECURSIVE EscapeLoop_UpdateFirst(_, _, _, _)
\* Plausible slip: the recurrence is applied before the test, as the Julia
\* sweep does.
EscapeLoop_UpdateFirst(z, c, i, max_iterations) ==
    IF i < max_iterations
    THEN IF AbsGt2(CAdd(CSq(z), c))
         THEN Some(i)
         ELSE EscapeLoop_UpdateFirst(CAdd(CSq(z), c), c, i + 1, max_iterations)
    ELSE IF AbsGt2(z) THEN Some(max_iterations) ELSE None

RECURSIVE EscapeLoop(_, _, _, _)
\* The loop of get_escape_time from iteration i on, z being the value carried
\* into it, followed by the test after the loop.
EscapeLoop(z, c, i, max_iterations) ==
    IF i < max_iterations
    THEN IF AbsGt2(z)
         THEN Some(i)
         ELSE EscapeLoop(CAdd(CSq(z), c), c, i + 1, max_iterations)
    ELSE IF AbsGt2(z) THEN Some(max_iterations) ELSE None

\* get_escape_time(c, max_iterations): z = c, then the loop.
get_escape_time(c, max_iterations) == EscapeLoop(c, c, 0, max_iterations)

\* ---------------------------------------------------------- numpy arrays
\* An ndarray: its shape and its entries, indexed from 0.  A 1-D array has
\* a shape of length 1 and entries indexed by <<i>>.
Indices(shape) ==
    IF Len(shape) = 1
    THEN {<<i>> : i \in 0..(shape[1] - 1)}
    ELSE (0..(shape[1] - 1)) \X (0..(shape[2] - 1))

\* np.array([]) : the empty 1-D array, shape (0,).
EmptyArray == [kind |-> "array", shape |-> <<0>>, data |-> [p \in {} |-> 0]]

\* np.zeros(shape)
zeros(shape) == [kind |-> "array", shape |-> shape, data |-> [p \in Indices(shape) |-> 0]]

\* An exception leaving the call.
Raised == [kind |-> "error", shape |-> <<0>>, data |-> [p \in {} |-> 0]]

\* ceil(a / b) for b > 0.
CeilDiv(a, b) == -((-a) \div b)

\* Length of np.arange(start, stop, step), step # 0:
\* max(0, ceil((stop - start) / step)).
ArangeLen(start, stop, step) ==
    LET q == IF step > 0 THEN CeilDiv(stop - start, step)
                         ELSE CeilDiv(start - stop, -step)
    IN IF q > 0 THEN q ELSE 0

\* Plausible slip: a closed range, the stop value included (np.linspace-like).
arange_Inclusive(start, stop, step) ==
    IF step = 0 THEN [kind |-> "error", vals |-> <<>>]
    ELSE LET n == IF (step > 0 /\ stop >= start) \/ (step < 0 /\ stop <= start)
                  THEN ((stop - start) \div step) + 1 ELSE 0
         IN [kind |-> "array", vals |-> [i \in 1..n |-> start + (i - 1) * step]]

\* np.arange(start, stop, step): start + i*step for i = 0..len-1, the stop
\* value excluded; a step of 0 raises (the length is a division by zero).
arange(start, stop, step) ==
    IF step = 0 THEN [kind |-> "error", vals |-> <<>>]
    ELSE [kind |-> "array",
          vals |-> [i \in 1..ArangeLen(start, stop, step) |-> start + (i - 1) * step]]

\* ------------------------------------------------------ get_complex_grid
\* z * w, as Python multiplies two complex numbers.
CMul(z, w) ==
    IF z.nan \/ w.nan THEN NaN
    ELSE Cx(z.re * w.re - z.im * w.im, z.re * w.im + z.im * w.re)

\* Plausible slip: rows and columns exchanged in the broadcast sum.
Broadcast_Transposed(row1, col1) ==
    [kind |-> "array",
     shape |-> <<Len(row1), Len(col1)>>,
     data |-> [p \in Indices(<<Len(row1), Len(col1)>>) |->
                 CAdd(Cx(row1[p[1] + 1], 0), CMul(Cx(col1[p[2] + 1], 0), Cx(0, 1)))]]

\* col1.reshape(-1, 1) and ar = row1 + col1 * 1j : the (R,1) column is
\* broadcast against the (C,) row, entry (r, c) = row1[c] + col1[r] * 1j.
Broadcast(row1, col1) ==
    [kind |-> "array",
     shape |-> <<Len(col1), Len(row1)>>,
     data |-> [p \in Indices(<<Len(col1), Len(row1)>>) |->
                 CAdd(Cx(row1[p[2] + 1], 0), CMul(Cx(col1[p[1] + 1], 0), Cx(0, 1)))]]

\* Lines 44-48: the two ranges and their broadcast sum.
GridBody(top_left, bottom_right, step) ==
    LET row1 == arange(top_left.re, bottom_right.re, step)
        col1 == arange(top_left.im, bottom_right.im, -step)
    IN IF row1.kind = "error" \/ col1.kind = "error"
       THEN Raised
       ELSE Broadcast(row1.vals, col1.vals)

\* Plausible slip: the guard of lines 41-42 is left out.
get_complex_grid_NoGuard(top_left, bottom_right, step) ==
    GridBody(top_left, bottom_right, step)

\* get_complex_grid(top_left, bottom_right, step)
get_complex_grid(top_left, bottom_right, step) ==
    IF bottom_right.re < top_left.re \/ bottom_right.im > top_left.im
    THEN EmptyArray
    ELSE GridBody(top_left, bottom_right, step)

\* --------------------------------------------- get_escape_time_color_arr
\* Plausible slip: a point that never escaped is given max_iterations.
EscapeTimeEntry_NoPlusOne(c, max_iterations) ==
    LET escape_time == get_escape_time(c, max_iterations)
    IN IF escape_time.isNone THEN max_iterations ELSE escape_time.val

\* Lines 74-78: the entry of escape_times_arr for the sample c.
EscapeTimeEntry(c, max_iterations) ==
    LET escape_time == get_escape_time(c, max_iterations)
    IN IF escape_time.isNone THEN max_iterations + 1 ELSE escape_time.val

\* Plausible slip: the quotient is taken over max_iterations.
ColorValue_WrongDenominator(escape_time, max_iterations) ==
    [num |-> max_iterations - escape_time + 1, den |-> max_iterations]

\* Line 83: (max_iterations - escape_time + 1) / (max_iterations + 1), kept
\* as the quotient num / den.
ColorValue(escape_time, max_iterations) ==
    [num |-> max_iterations - escape_time + 1, den |-> max_iterations + 1]

\* get_escape_time_color_arr(c_arr, max_iterations).  The loops run over
\* shape[0] and shape[1]; an array with shape[0] = 0 never reads shape[1].
\* The record holds the three arrays as they are when the call returns:
\* the caller's c_arr, the local escape_times_arr and the returned color_arr.
get_escape_time_color_arr(c_arr, max_iterations) ==
    LET escape_times_arr ==
            [kind |-> "array", shape |-> c_arr.shape,
             data |-> [p \in Indices(c_arr.shape) |->
                         EscapeTimeEntry(c_arr.data[p], max_iterations)]]
        color_arr ==
            [kind |-> "array", shape |-> c_arr.shape,
             data |-> [p \in Indices(c_arr.shape) |->
                         ColorValue(escape_times_arr.data[p], max_iterations)]]
    IN [c_arr |-> c_arr, escape_times_arr |-> escape_times_arr, color_arr |-> color_arr]

\* --------------------------------------------------- get_julia_color_arr
\* z ** 2 + c on every entry (line 109).
JuliaUpdate(zdata, c) == [p \in DOMAIN zdata |-> CAdd(CSq(zdata[p]), c)]

\* escaped = np.abs(z) > 2 (line 112).
EscapedMask(zdata) == [p \in DOMAIN zdata |-> AbsGt2(zdata[p])]

\* escape_data[escaped & (escape_data == 0)] = i (line 115).
AssignEscape(edata, mask, iter) ==
    [p \in DOMAIN edata |-> IF mask[p] /\ edata[p] = 0 THEN iter ELSE edata[p]]

\* Plausible slip: the escaped entries are left as they are.
MarkEscaped_Forgotten(zdata, mask) == zdata

\* z[escaped] = np.nan (line 116).
MarkEscaped(zdata, mask) == [p \in DOMAIN zdata |-> IF mask[p] THEN NaN ELSE zdata[p]]

\* ------------------------------------------------------------ the state
VARIABLES
    pc,           \* "idle", "have_grid", "julia", "returned" or "raised"
    args,         \* the arguments of the call in progress or just returned
    result,       \* what the last call returned
    grid,         \* the caller's array, as get_complex_grid returned it
    z,            \* get_julia_color_arr: the local z (entries)
    escape_data,  \* get_julia_color_arr: the local escape_data (entries)
    escaped,      \* get_julia_color_arr: the local mask escaped (entries)
    i,            \* get_julia_color_arr: the next value of the loop index
    sweep         \* for every finished loop iteration, in order: the mask it
                  \* computed and escape_data as it left it (an observation
                  \* of the loop, read by no action)

vars == <<pc, args, result, grid, z, escape_data, escaped, i, sweep>>

NoArray == [kind |-> "none", shape |-> <<0>>, data |-> [p \in {} |-> 0]]
NoData == [p \in {} |-> 0]

Points == {Cx(a, b) : a \in Coord, b \in Coord}
JuliaConstants == {Cx(a, b) : a \in (-JuliaCMax)..JuliaCMax, b \in (-JuliaCMax)..JuliaCMax}

juliaVars == <<z, escape_data, escaped, i, sweep>>

\* Before any call.
Init ==
    /\ pc = "idle"
    /\ args = [fn |-> "none"]
    /\ result = NoArray
    /\ grid = NoArray
    /\ z = NoData
    /\ escape_data = NoData
    /\ escaped = NoData
    /\ i = 0
    /\ sweep = <<>>

\* A call get_escape_time(c, max_iterations).
CallEscapeTime ==
    /\ pc = "idle"
    /\ \E c \in Points, n \in Iterations :
          /\ args' = [fn |-> "get_escape_time", c |-> c, max_iterations |-> n]
          /\ result' = get_escape_time(c, n)
    /\ pc' = "returned"
    /\ UNCHANGED <<grid, juliaVars>>

\* A call grid = get_complex_grid(top_left, bottom_right, step).
CallComplexGrid ==
    /\ pc = "idle"
    /\ \E tl \in Points, br \in Points, step \in Steps :
          LET r == get_complex_grid(tl, br, step)
          IN /\ args' = [fn |-> "get_complex_grid", top_left |-> tl,
                         bottom_right |-> br, step |-> step]
             /\ result' = r
             /\ grid' = IF r.kind = "error" THEN grid ELSE r
             /\ pc' = IF r.kind = "error" THEN "raised" ELSE "have_grid"
    /\ UNCHANGED juliaVars

\* A call get_escape_time_color_arr(grid, max_iterations).
CallColorArr ==
    /\ pc = "have_grid"
    /\ \E n \in Iterations :
          LET r == get_escape_time_color_arr(grid, n)
          IN /\ args' = [fn |-> "get_escape_time_color_arr", c_arr |-> grid,
                         max_iterations |-> n]
             /\ grid' = r.c_arr
             /\ result' = r.color_arr
    /\ pc' = "returned"
    /\ UNCHANGED juliaVars

\* get_julia_color_arr(grid, c, max_iter) up to the loop (lines 100-106).
JuliaStart ==
    /\ pc = "have_grid"
    /\ \E c \in JuliaConstants, n \in Iterations :
          args' = [fn |-> "get_julia_color_arr", grid |-> grid, c |-> c, max_iter |-> n]
    /\ escape_data' = zeros(grid.shape).data
    /\ z' = grid.data
    /\ escaped' = NoData
    /\ i' = 0
    /\ sweep' = <<>>
    /\ pc' = "julia"
    /\ UNCHANGED <<result, grid>>

\* One iteration of the loop (lines 107-116).
JuliaIter ==
    /\ pc = "julia"
    /\ i < args.max_iter
    /\ LET z1 == JuliaUpdate(z, args.c)
           mask == EscapedMask(z1)
           ed == AssignEscape(escape_data, mask, i)
       IN /\ escaped' = mask
          /\ escape_data' = ed
          /\ z' = MarkEscaped(z1, mask)
          /\ sweep' = Append(sweep, [escaped |-> mask, escape_data |-> ed])
    /\ i' = i + 1
    /\ UNCHANGED <<pc, args, result, grid>>

\* The loop is over: return escape_data (line 118).
JuliaReturn ==
    /\ pc = "julia"
    /\ i >= args.max_iter
    /\ result' = [kind |-> "array", shape |-> grid.shape, data |-> escape_data]
    /\ pc' = "returned"
    /\ UNCHANGED <<args, grid, juliaVars>>

Next ==
    \/ CallEscapeTime
    \/ CallComplexGrid
    \/ CallColorArr
    \/ JuliaStart
    \/ JuliaIter
    \/ JuliaReturn

Spec == Init /\ [][Next]_vars

\* ------------------------------------------------------------ the orbit
RECURSIVE Orbit(_, _, _)
\* z_n of the recurrence z_0 = z0, z_(n+1) = z_n^2 + c.
Orbit(z0, c, n) == IF n = 0 THEN z0 ELSE CAdd(CSq(Orbit(z0, c, n - 1)), c)

\* |w|^2, for the magnitude tests of the claims.
NormSq(w) == w.re * w.re + w.im * w.im

\* |z_n| > 2 on the orbit of z0 under c.
Exceeds(z0, c, n) == NormSq(Orbit(z0, c, n)) > 4

\* n is the least index of the orbit with |z_n| > 2.
FirstExceedsAt(z0, c, n) ==
    /\ \A m \in 0..(n - 1) : ~Exceeds(z0, c, m)
    /\ Exceeds(z0, c, n)

EscapeTimeReturned == pc = "returned" /\ args.fn = "get_escape_time"
GridReturned == pc \in {"have_grid", "raised"} /\ args.fn = "get_complex_grid"
ColorReturned == pc = "returned" /\ args.fn = "get_escape_time_color_arr"
JuliaRunning == pc = "julia" /\ args.fn = "get_julia_color_arr"
JuliaReturned == pc = "returned" /\ args.fn = "get_julia_color_arr"

\* ------------------------------------------------------------------- C1
\* C1: get_escape_time(c, maxIterations) returns the least index n in
\* 0..maxIterations with |z_n| > 2 on the orbit z_0 = c, z_(n+1) = z_n^2 + c
\* when there is one, and None exactly when |z_n| <= 2 for every n in
\* 0..maxIterations.
C1_EscapeTimeIsLeastIndex ==
    EscapeTimeReturned =>
        LET c == args.c
            M == args.max_iterations
        IN /\ (\E n \in 0..M : Exceeds(c, c, n)) =>
                  /\ ~result.isNone
                  /\ result.val \in 0..M
                  /\ FirstExceedsAt(c, c, result.val)
           /\ result.isNone <=> (\A n \in 0..M : ~Exceeds(c, c, n))

\* A call that escaped inside the loop after at least one update, and not at
\* the last index.
C1_Witness ==
    /\ EscapeTimeReturned
    /\ ~result.isNone
    /\ 0 < result.val
    /\ result.val < args.max_iterations

\* ------------------------------------------------------------------- C2
\* C2: for |c| > 2 and every maxIterations >= 0 (maxIterations = 0, where
\* the loop body never runs, included) get_escape_time returns 0; for
\* maxIterations = 0 and |c| <= 2 it returns None.
C2_OutsideDiskEscapesAtZero ==
    EscapeTimeReturned =>
        /\ NormSq(args.c) > 4 => result = Some(0)
        /\ (args.max_iterations = 0 /\ NormSq(args.c) <= 4) => result = None

\* maxIterations = 0 with |c| > 2: the answer comes from the test after the loop.
C2_Witness ==
    /\ EscapeTimeReturned
    /\ args.max_iterations = 0
    /\ NormSq(args.c) > 4
    /\ result = Some(0)

\* ------------------------------------------------------- C3, C4, C5, C9
\* The region is not degenerate: the guard of get_complex_grid lets it pass.
NonDegenerate ==
    /\ args.bottom_right.re >= args.top_left.re
    /\ args.bottom_right.im <= args.top_left.im

\* How many multiples k*step, k = 0, 1, ..., lie in the half-open span
\* [0, span): the count of samples of a range that leaves its stop value out.
\* For step > 0 this is ceil(span / step).
SamplesBefore(span, step) ==
    Cardinality({k \in 0..(2 * CoordMax) : k * step < span})

C9_NonPositiveStepFails ==
    (GridReturned /\ args.step <= 0) =>
        /\ pc = "raised"
        /\ result.kind = "error"

\* --------------------------------------------------------------- C6, C7
\* The escape time the claim substitutes for the sample c: the value of
\* get_escape_time, or maxIterations + 1 for a Bounded point.
SubstitutedTime(c, M) ==
    IF get_escape_time(c, M).isNone THEN M + 1 ELSE get_escape_time(c, M).val

\* C6: get_escape_time_color_arr returns an array of the shape of c_arr whose
\* entry (i, j) is (maxIterations - t + 1) / (maxIterations + 1), t being the
\* escape time of c_arr[i, j] or maxIterations + 1 for a Bounded point; a
\* Bounded point gets 0, a point escaping at iteration 0 gets 1, and c_arr is
\* left as it was.
C6_ColorFormula ==
    ColorReturned =>
        LET M == args.max_iterations
            c_arr == args.c_arr
        IN /\ result.kind = "array"
           /\ result.shape = c_arr.shape
           /\ DOMAIN result.data = DOMAIN c_arr.data
           /\ \A p \in DOMAIN c_arr.data :
                 LET t == SubstitutedTime(c_arr.data[p], M)
                     v == result.data[p]
                 IN /\ v.den # 0
                    /\ v.num * (M + 1) = (M - t + 1) * v.den
                    /\ get_escape_time(c_arr.data[p], M).isNone => v.num = 0
                    /\ get_escape_time(c_arr.data[p], M) = Some(0) => v.num = v.den
           /\ grid = c_arr

\* A rendered grid holding a Bounded sample and a sample that escaped at an
\* iteration strictly between 0 and maxIterations.
C6_Witness ==
    /\ ColorReturned
    /\ \E p \in DOMAIN args.c_arr.data :
          get_escape_time(args.c_arr.data[p], args.max_iterations).isNone
    /\ \E q \in DOMAIN args.c_arr.data :
          LET t == get_escape_time(args.c_arr.data[q], args.max_iterations)
          IN ~t.isNone /\ 0 < t.val /\ t.val < args.max_iterations

\* C7: every entry of the array returned by get_escape_time_color_arr lies
\* in the closed interval [0, 1].
C7_ColorInUnitInterval ==
    ColorReturned =>
        \A p \in DOMAIN result.data :
            /\ result.data[p].den > 0
            /\ 0 <= result.data[p].num
            /\ result.data[p].num <= result.data[p].den

\* A rendered grid in which both ends of the interval occur, and a value
\* strictly between them.
C7_Witness ==
    /\ ColorReturned
    /\ \E p \in DOMAIN result.data : result.data[p].num = 0
    /\ \E p \in DOMAIN result.data : result.data[p].num = result.data[p].den
    /\ \E p \in DOMAIN result.data :
          0 < result.data[p].num /\ result.data[p].num < result.data[p].den

\* -------------------------------------------------------------- C8, C10
\* C8: in the array returned by get_julia_color_arr(grid, c, max_iter), a
\* point whose orbit z_0 = grid value, z_(n+1) = z_n^2 + c first has
\* |z_k| > 2 at an index k with 0 <= k < max_iter holds k; a point whose
\* orbit never exceeds 2 within the budget holds 0.
C8_JuliaEntryIsFirstIndex ==
    JuliaReturned =>
        \A p \in DOMAIN args.grid.data :
            LET z0 == args.grid.data[p]
            IN /\ \A k \in 0..(args.max_iter - 1) :
                     FirstExceedsAt(z0, args.c, k) => result.data[p] = k
               /\ (\A n \in 0..args.max_iter : ~Exceeds(z0, args.c, n)) =>
                     result.data[p] = 0

\* What the sweep leaves at a point started at z0 after n loop iterations,
\* computed from that point's orbit alone: loop iteration j tests z_(j+1),
\* the first j whose test succeeds is recorded, and 0 stands when none does.
OwnEntry(z0, c, n) ==
    IF \E j \in 0..(n - 1) : Exceeds(z0, c, j + 1)
    THEN CHOOSE j \in 0..(n - 1) :
            /\ \A m \in 0..(j - 1) : ~Exceeds(z0, c, m + 1)
            /\ Exceeds(z0, c, j + 1)
    ELSE 0

\* C10: during the sweep of get_julia_color_arr a point detected as escaped
\* in loop iteration a is frozen: no later iteration b detects it again, its
\* escape_data entry stays what iteration a left (also when that is 0), every
\* entry is determined by its own point's orbit and by no other point, and
\* the input grid is never modified.
C10_EscapedPointsAreFrozen ==
    (JuliaRunning \/ JuliaReturned) =>
        /\ grid = args.grid
        /\ DOMAIN escape_data = DOMAIN args.grid.data
        /\ \A a \in 1..Len(sweep) : \A p \in DOMAIN args.grid.data :
              /\ sweep[a].escape_data[p] = OwnEntry(args.grid.data[p], args.c, a)
              /\ sweep[a].escaped[p] =>
                    \A b \in (a + 1)..Len(sweep) :
                        /\ ~sweep[b].escaped[p]
                        /\ sweep[b].escape_data[p] = sweep[a].escape_data[p]
        /\ Len(sweep) > 0 => escape_data = sweep[Len(sweep)].escape_data
        /\ JuliaReturned =>
              /\ result.shape = args.grid.shape
              /\ result.data = escape_data

\* A sweep in which a point was detected in the first loop iteration, where
\* the value recorded is 0, and a later iteration detected another point.
C10_Witness ==
    /\ JuliaRunning \/ JuliaReturned
    /\ Len(sweep) >= 2
    /\ \E p \in DOMAIN args.grid.data : sweep[1].escaped[p]
    /\ \E q \in DOMAIN args.grid.data : \E b \in 2..Len(sweep) :
          sweep[b].escaped[q] /\ sweep[b].escape_data[q] = b - 1

=============================================================================
